---- MODULE Spec2Model ----
(***************************************************************************)
(* A model of the worker pallet (pallets/worker/src/lib.rs): the storage   *)
(* items of decl_storage!, the dispatchable init, the offchain worker with *)
(* its HTTP fetch, and the unsigned-transaction validator.                 *)
(***************************************************************************)
EXTENDS Integers, Sequences, FiniteSets, TLC

(* ------------------------------------------------------------------ *)
(* Bounds of the model                                                  *)
(* ------------------------------------------------------------------ *)
MaxThreshold == 1
MaxBlock == 2
MaxPending == 1
MaxHexLen == 1

(* ------------------------------------------------------------------ *)
(* Runtime configuration (associated types of Trait)                    *)
(* GracePeriod and UnsignedInterval are declared by the trait and read   *)
(* by no function of the pallet.                                        *)
(* ------------------------------------------------------------------ *)
GracePeriod == 2
UnsignedInterval == 2
UnsignedPriority == 1048576

(* ------------------------------------------------------------------ *)
(* Option<T>, storage maps                                              *)
(* ------------------------------------------------------------------ *)
None == <<>>
Some(v) == <<v>>
is_none(o) == o = <<>>
is_some(o) == o # <<>>
unwrap(o) == o[1]

EmptyMap == [k \in {} |-> 0]
contains_key(m, k) == k \in DOMAIN m
insert(m, k, v) == [x \in (DOMAIN m) \cup {k} |-> IF x = k THEN v ELSE m[x]]

(* H256::zero(), the value of BestHeaderHash before any write *)
ZeroHash == 0

(* ------------------------------------------------------------------ *)
(* Genesis header payloads: RLP bytes, decoded by rlp::decode           *)
(* ------------------------------------------------------------------ *)
HeaderSet ==
  {[parent_hash |-> 0, number |-> 0, difficulty |-> 100],
   [parent_hash |-> 0, number |-> 0, difficulty |-> 150],
   [parent_hash |-> 3, number |-> 7, difficulty |-> 100],
   [parent_hash |-> 5, number |-> 7, difficulty |-> 150]}

(* the list prefix that opens a well-formed header encoding *)
RlpListTag == 249
rlp_encode(h) == <<RlpListTag, h.parent_hash, h.number, h.difficulty>>

Payloads ==
  {rlp_encode(h) : h \in HeaderSet} \cup {<<>>, <<RlpListTag, 0>>, <<0, 0, 0, 1>>}

(* rlp::decode(first_header.as_slice()): Some(header) on a well-formed   *)
(* encoding, None (a DecoderError) otherwise                            *)
rlp_decode(bytes) ==
  IF Len(bytes) = 4 /\ bytes[1] = RlpListTag
    THEN Some([parent_hash |-> bytes[2], number |-> bytes[3], difficulty |-> bytes[4]])
    ELSE None

(* header.hash(): a digest, injective on the headers above and never zero *)
HeaderHash(h) == 1 + h.parent_hash + 10 * h.number + 100 * h.difficulty

(* ------------------------------------------------------------------ *)
(* Inputs of the dispatchable and of the validator                      *)
(* ------------------------------------------------------------------ *)
SignedOrigins == {[kind |-> "Signed", who |-> 1]}
UnsignedOrigins == {[kind |-> "Root", who |-> 0], [kind |-> "None", who |-> 0]}

Thresholds == 0..MaxThreshold

(* epoch, roots, confirmations and trusted signer of the sample calls *)
Configs ==
  {[dags_start_epoch |-> 0, dags_merkle_roots |-> <<>>,
    num_confirmations |-> 5, trusted_signer |-> None],
   [dags_start_epoch |-> 1, dags_merkle_roots |-> <<11, 12>>,
    num_confirmations |-> 0, trusted_signer |-> Some(1)]}

InitArgs ==
  {[dags_start_epoch |-> c.dags_start_epoch,
    dags_merkle_roots |-> c.dags_merkle_roots,
    first_header |-> p,
    hashes_gc_threshold |-> h,
    finalized_gc_threshold |-> f,
    num_confirmations |-> c.num_confirmations,
    trusted_signer |-> c.trusted_signer]
     : c \in Configs, p \in Payloads, h \in Thresholds, f \in Thresholds}

(* the calls tried when init rejects the call before it reads its       *)
(* arguments: one with a well-formed genesis header, one with a         *)
(* malformed one                                                        *)
UnsignedInitArgs ==
  {a \in InitArgs :
     /\ a.dags_start_epoch = 1
     /\ a.hashes_gc_threshold = 0 /\ a.finalized_gc_threshold = 1
     /\ a.first_header \in {<<>>, rlp_encode([parent_hash |-> 0, number |-> 0, difficulty |-> 100])}}

(* the arguments tried in a state: init reads none of them when one of  *)
(* its guards rejects the call, so two calls stand for all there        *)
InitArgsTried(rejected) == IF rejected THEN UnsignedInitArgs ELSE InitArgs

TransactionSources == {"InBlock", "Local", "External"}
Calls == {"init"}

(* ------------------------------------------------------------------ *)
(* State                                                                *)
(* ------------------------------------------------------------------ *)
VARIABLES
  DAGsStartEpoch,         \* Option<u64>
  DAGsMerkleRoots,        \* Vec<H128>
  BestHeaderHash,         \* H256
  HashesGCThreshold,      \* Option<T::Threshold>
  FinalizedGCThreshold,   \* Option<T::Threshold>
  NumConfirmations,       \* Option<T::Threshold>
  CanonicalHeaderHashes,  \* map U256 => H256
  AllHeaderHashes,        \* map U256 => Vec<H256>
  Headers,                \* map H256 => Option<ethereum::Header>
  Infos,                  \* map H256 => Option<HeaderInfo>
  TrustedSigner,          \* Option<T::AccountId>
  blockNumber,            \* the block the node has imported
  pending,                \* worker runs blocked in pending.wait()
  last,                   \* the operation last run and what it returned
  initArgs,               \* the arguments of the init call that returned Ok
  lastAdmitted            \* the block at which an unsigned call was last admitted

scalars ==
  <<DAGsStartEpoch, DAGsMerkleRoots, HashesGCThreshold, FinalizedGCThreshold,
    NumConfirmations, TrustedSigner>>
maps == <<BestHeaderHash, CanonicalHeaderHashes, AllHeaderHashes, Headers, Infos>>
storage == <<scalars, maps>>
vars == <<storage, blockNumber, pending, last, initArgs, lastAdmitted>>

Init ==
  /\ DAGsStartEpoch = None
  /\ DAGsMerkleRoots = <<>>
  /\ BestHeaderHash = ZeroHash
  /\ HashesGCThreshold = None
  /\ FinalizedGCThreshold = None
  /\ NumConfirmations = None
  /\ CanonicalHeaderHashes = EmptyMap
  /\ AllHeaderHashes = EmptyMap
  /\ Headers = EmptyMap
  /\ Infos = EmptyMap
  /\ TrustedSigner = None
  /\ blockNumber = 1
  /\ pending = 0
  /\ last = [op |-> "none", result |-> "none", value |-> 0]
  /\ initArgs = None
  /\ lastAdmitted = None

(* ------------------------------------------------------------------ *)
(* init                                                                 *)
(* ------------------------------------------------------------------ *)
(* every origin taken as signed *)
ensure_signed_any(origin) == Some(origin.who)

ensure_signed(origin) == IF origin.kind = "Signed" THEN Some(origin.who) ELSE None

(* a guard that tests the wrong storage item *)
already_initialized_wrong_item == ~is_none(TrustedSigner)

(* the three ensure! guards *)
already_initialized ==
  \/ ~is_none(DAGsStartEpoch)
  \/ ~is_none(HashesGCThreshold)
  \/ ~is_none(FinalizedGCThreshold)

(* the two GC thresholds written to each other's item *)
set_config_swapped(a) ==
  /\ DAGsStartEpoch' = Some(a.dags_start_epoch)
  /\ DAGsMerkleRoots' = a.dags_merkle_roots
  /\ HashesGCThreshold' = Some(a.finalized_gc_threshold)
  /\ FinalizedGCThreshold' = Some(a.hashes_gc_threshold)
  /\ NumConfirmations' = Some(a.num_confirmations)
  /\ TrustedSigner' = a.trusted_signer

(* the six scalar writes that precede the decoding of the header *)
set_config(a) ==
  /\ DAGsStartEpoch' = Some(a.dags_start_epoch)
  /\ DAGsMerkleRoots' = a.dags_merkle_roots
  /\ HashesGCThreshold' = Some(a.hashes_gc_threshold)
  /\ FinalizedGCThreshold' = Some(a.finalized_gc_threshold)
  /\ NumConfirmations' = Some(a.num_confirmations)
  /\ TrustedSigner' = a.trusted_signer

(* the number field given the header's difficulty *)
header_info_number_is_difficulty(header) ==
  [total_difficulty |-> header.difficulty,
   parent_hash |-> header.parent_hash,
   number |-> header.difficulty]

header_info(header) ==
  [total_difficulty |-> header.difficulty,
   parent_hash |-> header.parent_hash,
   number |-> header.number]

(* allHeaderHashes given the parent's hash instead of the header's *)
insert_genesis_parent_in_all(header) ==
  LET header_hash == HeaderHash(header)
      header_number == header.number
  IN /\ BestHeaderHash' = header_hash
     /\ AllHeaderHashes' = insert(AllHeaderHashes, header_number, <<header.parent_hash>>)
     /\ CanonicalHeaderHashes' = insert(CanonicalHeaderHashes, header_number, header_hash)
     /\ Headers' = insert(Headers, header_hash, header)
     /\ Infos' = insert(Infos, header_hash, header_info(header))

(* bestHeaderHash given the parent's hash instead of the header's *)
insert_genesis_best_is_parent(header) ==
  LET header_hash == HeaderHash(header)
      header_number == header.number
  IN /\ BestHeaderHash' = header.parent_hash
     /\ AllHeaderHashes' = insert(AllHeaderHashes, header_number, <<header_hash>>)
     /\ CanonicalHeaderHashes' = insert(CanonicalHeaderHashes, header_number, header_hash)
     /\ Headers' = insert(Headers, header_hash, header)
     /\ Infos' = insert(Infos, header_hash, header_info(header))

(* the five writes that follow the decoding of the header *)
insert_genesis(header) ==
  LET header_hash == HeaderHash(header)
      header_number == header.number
  IN /\ BestHeaderHash' = header_hash
     /\ AllHeaderHashes' = insert(AllHeaderHashes, header_number, <<header_hash>>)
     /\ CanonicalHeaderHashes' = insert(CanonicalHeaderHashes, header_number, header_hash)
     /\ Headers' = insert(Headers, header_hash, header)
     /\ Infos' = insert(Infos, header_hash, header_info(header))

returns(op, result, value) == last' = [op |-> op, result |-> result, value |-> value]

(* what is observed of an init call: the kind of its origin and whether *)
(* its first_header decodes                                             *)
observed(origin, a) ==
  [origin |-> origin.kind, decodes |-> is_some(rlp_decode(a.first_header))]

(* rlp::decode(..).unwrap() on an undecodable payload panics after the   *)
(* scalar writes have been made.  The pallet does not decide what        *)
(* becomes of them: a caller that discards the changes of a panicked     *)
(* call restores the storage, a caller that does not keeps the writes.   *)
init_panic(origin, a) ==
  /\ returns("init", "Panic", observed(origin, a))
  /\ \/ UNCHANGED storage
     \/ set_config(a) /\ UNCHANGED maps

init(origin, a) ==
  /\ UNCHANGED <<blockNumber, pending, lastAdmitted>>
  /\ IF is_none(ensure_signed(origin))
       THEN /\ returns("init", "BadOrigin", observed(origin, a))
            /\ UNCHANGED <<storage, initArgs>>
     ELSE IF already_initialized
       THEN /\ returns("init", "Already initialized", observed(origin, a))
            /\ UNCHANGED <<storage, initArgs>>
     ELSE IF is_none(rlp_decode(a.first_header))
       THEN init_panic(origin, a) /\ UNCHANGED initArgs
     ELSE /\ set_config(a)
          /\ insert_genesis(unwrap(rlp_decode(a.first_header)))
          /\ returns("init", "Ok", observed(origin, a))
          /\ initArgs' = Some(a)

(* ------------------------------------------------------------------ *)
(* HTTP responses to the eth_getBlockByNumber request                   *)
(* ------------------------------------------------------------------ *)
JNull == [t |-> "Null", v |-> <<>>]
JString(chars) == [t |-> "String", v |-> chars]
JObject(pairs) == [t |-> "Object", v |-> pairs]

Alphabet == {"0", "1", "x"}
LongHexStrings ==
  {<<"0", "1", "0", "0">>,
   <<"0", "x", "0", "1", "0", "0">>,
   <<"0", "x", "0", "1", "0", "0", "0", "0", "0", "0", "0", "1">>,
   <<"0", "x", "g", "0">>,
   <<"0", "x", "1", "b", "4">>,
   [i \in 1..66 |-> "1"]}
HexStrings == LongHexStrings \cup UNION {[1..n -> Alphabet] : n \in 0..MaxHexLen}

(* the value parse_json gives for each body that is JSON *)
JsonValues ==
  {JNull,
   JObject(<<>>),
   JObject(<< <<"error", JNull>> >>),
   JObject(<< <<"result", JNull>> >>),
   JObject(<< <<"result", JNull>>, <<"result", JObject(<< <<"number", JString(<<"0", "1">>)>> >>)>> >>),
   JObject(<< <<"result", JObject(<<>>)>> >>),
   JObject(<< <<"result", JObject(<< <<"hash", JString(<<"0", "x">>)>> >>)>> >>),
   JObject(<< <<"result", JObject(<< <<"number", JNull>> >>)>> >>)}
    \cup {JObject(<< <<"id", JNull>>,
                     <<"result", JObject(<< <<"hash", JNull>>, <<"number", JString(s)>> >>)>> >>)
            : s \in HexStrings}

(* utf8: the bytes of the body are UTF-8; json: what parse_json returns *)
Bodies ==
  {[utf8 |-> FALSE, json |-> None], [utf8 |-> TRUE, json |-> None]}
    \cup {[utf8 |-> TRUE, json |-> Some(j)] : j \in JsonValues}

(* what pending.wait() returns: an http::Error or a response *)
Responses ==
  {[error |-> TRUE, body |-> [utf8 |-> FALSE, json |-> None]]}
    \cup {[error |-> FALSE, body |-> b] : b \in Bodies}

(* ------------------------------------------------------------------ *)
(* hex_to_bytes and the decoding of the block number                    *)
(* ------------------------------------------------------------------ *)
HexDigits ==
  <<"0", "1", "2", "3", "4", "5", "6", "7", "8", "9", "a", "b", "c", "d", "e", "f">>
HexUpper == <<"A", "B", "C", "D", "E", "F">>

is_hex_digit(c) ==
  \/ \E i \in 1..Len(HexDigits) : HexDigits[i] = c
  \/ \E i \in 1..Len(HexUpper) : HexUpper[i] = c

hex_val(c) ==
  IF \E i \in 1..Len(HexDigits) : HexDigits[i] = c
    THEN (CHOOSE i \in 1..Len(HexDigits) : HexDigits[i] = c) - 1
    ELSE (CHOOSE i \in 1..Len(HexUpper) : HexUpper[i] = c) + 9

(* hex::decode: Err on an odd number of characters or on a character    *)
(* that is no hex digit, else one byte for every two characters         *)
hex_decode(v) ==
  IF Len(v) % 2 # 0 \/ \E i \in 1..Len(v) : ~is_hex_digit(v[i])
    THEN None
    ELSE Some([i \in 1..(Len(v) \div 2) |-> 16 * hex_val(v[2 * i - 1]) + hex_val(v[2 * i])])

hex_to_bytes(v) ==
  LET v_no_prefix ==
        IF Len(v) >= 2 /\ v[1] = "0" /\ v[2] = "x" THEN SubSeq(v, 3, Len(v)) ELSE v
  IN hex_decode(v_no_prefix)

(* U256::from_big_endian on at most 32 bytes: the value as sixteen       *)
(* 16-bit limbs, limb 1 the least significant                           *)
from_big_endian(bytes) ==
  LET padded == [i \in 1..32 |->
                   IF i <= 32 - Len(bytes) THEN 0 ELSE bytes[i - (32 - Len(bytes))]]
  IN [k \in 1..16 |-> 256 * padded[33 - 2 * k] + padded[34 - 2 * k]]

(* U256::low_u32: the two low limbs, as a u32 in two 16-bit halves *)
low_u32(n) == [hi |-> n[2], lo |-> n[1]]

(* first (key, value) pair of an object whose key is k *)
find(pairs, k) ==
  IF \E i \in 1..Len(pairs) : pairs[i][1] = k
    THEN Some(pairs[CHOOSE i \in 1..Len(pairs) :
                      pairs[i][1] = k /\ \A j \in 1..(i - 1) : pairs[j][1] # k])
    ELSE None

(* fetch_block from the return of pending.wait() on: the u32 it returns, *)
(* or the panic of the unwrap that fails (of from_big_endian's length    *)
(* assertion for more than 32 bytes), named by the step that failed.     *)
(* No path returns Err.  assert_eq!(headers.current(), None) reads an    *)
(* iterator that has not been advanced and always passes.               *)
Fetched(n) == [result |-> "Ok", value |-> n]
Panicked(cause) == [result |-> "Panic", value |-> cause]

fetch_block(response) ==
  IF response.error THEN Panicked("wait")
  ELSE IF ~response.body.utf8 THEN Panicked("utf8")
  ELSE IF is_none(response.body.json) THEN Panicked("json")
  ELSE
    LET val == unwrap(response.body.json)
        result == IF val.t = "Object" THEN find(val.v, "result") ELSE None
        block == IF is_some(result) /\ unwrap(result)[2].t = "Object"
                   THEN Some(unwrap(result)[2].v) ELSE None
        number == IF is_some(block) THEN find(unwrap(block), "number") ELSE None
        number_hex == IF is_some(number) /\ unwrap(number)[2].t = "String"
                        THEN Some(unwrap(number)[2].v) ELSE None
        decoded_vec == IF is_some(number_hex) THEN hex_to_bytes(unwrap(number_hex)) ELSE None
    IN IF is_none(block) THEN Panicked("result")
       ELSE IF is_none(number_hex) THEN Panicked("number")
       ELSE IF is_none(decoded_vec) THEN Panicked("hex")
       ELSE IF Len(unwrap(decoded_vec)) > 32 THEN Panicked("length")
       ELSE Fetched(low_u32(from_big_endian(unwrap(decoded_vec))))

(* ------------------------------------------------------------------ *)
(* offchain_worker                                                      *)
(* ------------------------------------------------------------------ *)
(* the run for block_number up to pending.wait(): the parent's block     *)
(* hash is read and logged, then request.send() either fails, and its    *)
(* unwrap panics, or leaves the run waiting                             *)
offchain_worker(block_number, send_ok) ==
  /\ block_number = blockNumber
  /\ pending < MaxPending
  /\ IF send_ok
       THEN pending' = pending + 1 /\ returns("offchain_worker", "Waiting", 0)
       ELSE /\ pending' = pending
            /\ returns("offchain_worker", "Panic", [response |-> None, out |-> "send"])
  /\ UNCHANGED <<storage, blockNumber, initArgs, lastAdmitted>>

(* a run that writes what it fetched to the storage *)
offchain_worker_resume_writes(response) ==
  /\ pending > 0
  /\ pending' = pending - 1
  /\ returns("offchain_worker", fetch_block(response).result,
             [response |-> response, out |-> fetch_block(response).value])
  /\ NumConfirmations' = Some(0)
  /\ UNCHANGED <<DAGsStartEpoch, DAGsMerkleRoots, HashesGCThreshold, FinalizedGCThreshold,
                 TrustedSigner, maps, blockNumber, initArgs, lastAdmitted>>

(* pending.wait() returns and the run goes on to its end: fetch_block's  *)
(* Ok is unwrapped and logged, its panic ends the run.  What is observed *)
(* of the run is the response it received and how it ended.             *)
offchain_worker_resume(response) ==
  /\ pending > 0
  /\ pending' = pending - 1
  /\ returns("offchain_worker", fetch_block(response).result,
             [response |-> response, out |-> fetch_block(response).value])
  /\ UNCHANGED <<storage, blockNumber, initArgs, lastAdmitted>>

(* ------------------------------------------------------------------ *)
(* validate_unsigned                                                    *)
(* ------------------------------------------------------------------ *)
ValidTransaction ==
  [priority |-> UnsignedPriority,
   requires |-> <<>>,
   provides |-> <<>>,
   longevity |-> 5,
   propagate |-> TRUE]

(* lastAdmitted records the admission; the validator itself reads and   *)
(* writes no state                                                      *)
validate_unsigned(source, call) ==
  /\ returns("validate_unsigned", "Valid", ValidTransaction)
  /\ lastAdmitted' = Some(blockNumber)
  /\ UNCHANGED <<storage, blockNumber, pending, initArgs>>

(* ------------------------------------------------------------------ *)
(* The read-only functions of the module                                *)
(* ------------------------------------------------------------------ *)
initialized == is_some(DAGsStartEpoch)

QueryEpochs == {0, 1, 2, 3}

(* dag_merkle_root(epoch).  epoch - ep on u64 below zero panics where    *)
(* the build checks overflow and wraps where it does not; the wrapped    *)
(* index is beyond the length of any Vec, so the indexing panics.       *)
dag_merkle_root(epoch, overflow_checks) ==
  IF is_none(DAGsStartEpoch) THEN [result |-> "Ok", value |-> 0]
  ELSE LET ep == unwrap(DAGsStartEpoch)
       IN IF epoch < ep
            THEN (IF overflow_checks THEN Panicked("overflow") ELSE Panicked("index"))
          ELSE IF epoch - ep >= Len(DAGsMerkleRoots) THEN Panicked("index")
          ELSE [result |-> "Ok", value |-> DAGsMerkleRoots[epoch - ep + 1]]

call_dag_merkle_root(epoch, overflow_checks) ==
  /\ returns("dag_merkle_root", dag_merkle_root(epoch, overflow_checks).result,
             [epoch |-> epoch, out |-> dag_merkle_root(epoch, overflow_checks).value])
  /\ UNCHANGED <<storage, blockNumber, pending, initArgs, lastAdmitted>>

(* the number field given the total difficulty *)
last_block_number_difficulty ==
  IF contains_key(Infos, BestHeaderHash) THEN Infos[BestHeaderHash].total_difficulty ELSE 0

last_block_number ==
  IF contains_key(Infos, BestHeaderHash) THEN Infos[BestHeaderHash].number ELSE 0

call_last_block_number ==
  /\ returns("last_block_number", "Ok", last_block_number)
  /\ UNCHANGED <<storage, blockNumber, pending, initArgs, lastAdmitted>>

(* ------------------------------------------------------------------ *)
(* The node imports the next block                                      *)
(* ------------------------------------------------------------------ *)
next_block ==
  /\ blockNumber < MaxBlock
  /\ blockNumber' = blockNumber + 1
  /\ returns("next_block", "Ok", 0)
  /\ UNCHANGED <<storage, pending, initArgs, lastAdmitted>>

(* ------------------------------------------------------------------ *)
(* Specification                                                        *)
(* ------------------------------------------------------------------ *)
Next ==
  \/ \E origin \in SignedOrigins, a \in InitArgsTried(already_initialized) : init(origin, a)
  \/ \E origin \in UnsignedOrigins, a \in UnsignedInitArgs : init(origin, a)
  \/ \E send_ok \in BOOLEAN : offchain_worker(blockNumber, send_ok)
  \/ \E response \in Responses : offchain_worker_resume(response)
  \/ \E source \in TransactionSources, call \in Calls : validate_unsigned(source, call)
  \/ \E epoch \in QueryEpochs, overflow_checks \in BOOLEAN :
       call_dag_merkle_root(epoch, overflow_checks)
  \/ call_last_block_number
  \/ next_block

Spec == Init /\ [][Next]_vars

(* The node goes on importing blocks and starts a worker run for each;   *)
(* nothing obliges the external endpoint to answer a request.           *)
FairSpec ==
  /\ Init /\ [][Next]_vars
  /\ WF_vars(next_block)
  /\ WF_vars(\E send_ok \in BOOLEAN : offchain_worker(blockNumber, send_ok))

(* ------------------------------------------------------------------ *)
(* Properties                                                           *)
(* ------------------------------------------------------------------ *)
AnyMarkerSet ==
  DAGsStartEpoch # None \/ HashesGCThreshold # None \/ FinalizedGCThreshold # None

InitCalled == last'.op = "init"

(* C1, as stated: every init call made when one of dagsStartEpoch,       *)
(* hashesGCThreshold, finalizedGCThreshold is set fails with            *)
(* "Already initialized" and leaves the storage as it was.              *)
C1_AlreadyInitializedAnyCall ==
  [][(InitCalled /\ AnyMarkerSet)
       => (last'.result = "Already initialized" /\ UNCHANGED storage)]_vars

(* C1, amended: an init call made when one of the three markers is set   *)
(* leaves the storage as it was; it fails with "Already initialized"    *)
(* when its origin is signed and with BadOrigin when it is not.         *)
C1_AlreadyInitialized ==
  [][(InitCalled /\ AnyMarkerSet)
       => /\ UNCHANGED storage
          /\ last'.result =
               IF last'.value.origin = "Signed" THEN "Already initialized" ELSE "BadOrigin"]_vars

C1_Witness ==
  /\ last.op = "init" /\ last.result = "Already initialized"
  /\ AnyMarkerSet /\ DOMAIN Infos # {}

(* C2: right after an init that returned Ok the scalars hold the call's  *)
(* arguments, bestHeaderHash is the hash of the genesis header, and the  *)
(* genesis header is the only entry of canonicalHeaderHashes and of      *)
(* allHeaderHashes (at its height) and the only key of headers and      *)
(* infos, its info being {difficulty, parentHash, number} of the header. *)
C2_InitEffect ==
  (last.op = "init" /\ last.result = "Ok") =>
    /\ is_some(initArgs)
    /\ LET a == unwrap(initArgs)
           genesis == unwrap(rlp_decode(a.first_header))
           hash == HeaderHash(genesis)
       IN /\ DAGsStartEpoch = Some(a.dags_start_epoch)
          /\ DAGsMerkleRoots = a.dags_merkle_roots
          /\ HashesGCThreshold = Some(a.hashes_gc_threshold)
          /\ FinalizedGCThreshold = Some(a.finalized_gc_threshold)
          /\ NumConfirmations = Some(a.num_confirmations)
          /\ TrustedSigner = a.trusted_signer
          /\ BestHeaderHash = hash
          /\ DOMAIN CanonicalHeaderHashes = {genesis.number}
          /\ CanonicalHeaderHashes[genesis.number] = hash
          /\ DOMAIN AllHeaderHashes = {genesis.number}
          /\ AllHeaderHashes[genesis.number] = <<hash>>
          /\ DOMAIN Headers = {hash}
          /\ Headers[hash] = genesis
          /\ DOMAIN Infos = {hash}
          /\ Infos[hash] = [total_difficulty |-> genesis.difficulty,
                            parent_hash |-> genesis.parent_hash,
                            number |-> genesis.number]

C2_Witness ==
  /\ last.op = "init" /\ last.result = "Ok"
  /\ HashesGCThreshold # FinalizedGCThreshold
  /\ DAGsMerkleRoots # <<>>

(* C3: an init call with finalizedGCThreshold < hashesGCThreshold does   *)
(* not return Ok, and in every state that follows an init that returned  *)
(* Ok, finalizedGCThreshold >= hashesGCThreshold.                       *)
C3_ThresholdsValidated ==
  /\ (last.op = "init" /\ last.result = "Ok") =>
       unwrap(initArgs).finalized_gc_threshold >= unwrap(initArgs).hashes_gc_threshold
  /\ is_some(initArgs) => unwrap(FinalizedGCThreshold) >= unwrap(HashesGCThreshold)

MalformedGenesisCall ==
  /\ InitCalled
  /\ last'.value.origin = "Signed"
  /\ ~last'.value.decodes
  /\ ~AnyMarkerSet

(* C4: an init call on an uninitialised ChainState whose genesis payload *)
(* does not decode fails and writes nothing: the storage is as it was,   *)
(* so ChainState is still uninitialised.                                *)
C4_MalformedGenesisAtomic ==
  [][MalformedGenesisCall
       => (last'.result # "Ok" /\ UNCHANGED storage /\ ~AnyMarkerSet')]_vars

(* C5: every hash of canonicalHeaderHashes is a member of allHeaderHashes *)
(* at its height and a key of headers and of infos.                     *)
C5_CanonicalStored ==
  \A h \in DOMAIN CanonicalHeaderHashes :
    /\ h \in DOMAIN AllHeaderHashes
    /\ \E i \in 1..Len(AllHeaderHashes[h]) :
         AllHeaderHashes[h][i] = CanonicalHeaderHashes[h]
    /\ CanonicalHeaderHashes[h] \in DOMAIN Headers
    /\ CanonicalHeaderHashes[h] \in DOMAIN Infos

C5_Witness ==
  /\ DOMAIN CanonicalHeaderHashes # {}
  /\ last.op = "init" /\ last.result = "Ok"

(* C6: in every state in which ChainState is initialised, bestHeaderHash *)
(* is a key of headers and of infos.                                    *)
C6_BestStored ==
  initialized => (BestHeaderHash \in DOMAIN Headers /\ BestHeaderHash \in DOMAIN Infos)

(* C7: bestHeaderHash has an info whose totalDifficulty is at least that *)
(* of every stored info.                                                *)
C7_BestIsMaximal ==
  \A x \in DOMAIN Infos :
    /\ BestHeaderHash \in DOMAIN Infos
    /\ Infos[BestHeaderHash].total_difficulty >= Infos[x].total_difficulty

C7_Witness ==
  /\ DOMAIN Infos # {}
  /\ Infos[BestHeaderHash].total_difficulty = 150
  /\ last.op # "init"

IsPrefix(s, t) == Len(s) <= Len(t) /\ \A i \in 1..Len(s) : s[i] = t[i]

(* C8: once an init has returned Ok, no step changes dagsStartEpoch,     *)
(* hashesGCThreshold, finalizedGCThreshold, numConfirmations or          *)
(* trustedSigner, and the dagsMerkleRoots given to that init stay a     *)
(* prefix of dagsMerkleRoots.                                           *)
C8_ConfigSetOnce ==
  [][is_some(initArgs)
       => /\ DAGsStartEpoch' = DAGsStartEpoch
          /\ HashesGCThreshold' = HashesGCThreshold
          /\ FinalizedGCThreshold' = FinalizedGCThreshold
          /\ NumConfirmations' = NumConfirmations
          /\ TrustedSigner' = TrustedSigner
          /\ IsPrefix(DAGsMerkleRoots, DAGsMerkleRoots')
          /\ IsPrefix(unwrap(initArgs).dags_merkle_roots, DAGsMerkleRoots')]_vars

C8_Witness ==
  /\ is_some(initArgs)
  /\ DAGsMerkleRoots = <<11, 12>>
  /\ last.op = "offchain_worker" /\ last.result = "Ok"
  /\ lastAdmitted # None

(* C9: an unsigned call presented within unsignedInterval blocks of the  *)
(* last one admitted is not admitted as valid.                          *)
C9_UnsignedCooldown ==
  [][(/\ last'.op = "validate_unsigned"
      /\ lastAdmitted # None
      /\ blockNumber - unwrap(lastAdmitted) < UnsignedInterval)
       => last'.result # "Valid"]_vars

WorkerEnded == last.op = "offchain_worker" /\ last.result # "Waiting"

MalformedCauses == {"utf8", "json", "result", "number", "hex"}

(* C11: a worker run whose response is malformed (not UTF-8, not JSON,   *)
(* no result object, no string number, a value that is not hex) does     *)
(* not end in a panic.                                                  *)
C11_FailuresHandled ==
  (WorkerEnded /\ last.result = "Panic") => last.value.out \notin MalformedCauses

(* C12: every worker run that waits for the response eventually stops    *)
(* waiting, whether or not the endpoint answers.                        *)
C12_FetchBounded ==
  \A n \in 1..MaxPending : (pending = n) ~> (pending < n)

(* the response whose result.number is the string s *)
NumberResponse(s) ==
  [error |-> FALSE,
   body |-> [utf8 |-> TRUE,
             json |-> Some(JObject(<< <<"id", JNull>>,
                                      <<"result", JObject(<< <<"hash", JNull>>,
                                                             <<"number", JString(s)>> >>)>> >>))]]

DigitValue ==
  ("0" :> 0) @@ ("1" :> 1) @@ ("2" :> 2) @@ ("3" :> 3) @@ ("4" :> 4) @@ ("5" :> 5)
    @@ ("6" :> 6) @@ ("7" :> 7) @@ ("8" :> 8) @@ ("9" :> 9) @@ ("a" :> 10) @@ ("b" :> 11)
    @@ ("c" :> 12) @@ ("d" :> 13) @@ ("e" :> 14) @@ ("f" :> 15) @@ ("A" :> 10)
    @@ ("B" :> 11) @@ ("C" :> 12) @@ ("D" :> 13) @@ ("E" :> 14) @@ ("F" :> 15)

(* "0x" followed by one to 64 hex digits *)
IsHexNumber(s) ==
  /\ Len(s) >= 3 /\ Len(s) <= 66
  /\ s[1] = "0" /\ s[2] = "x"
  /\ \A i \in 3..Len(s) : s[i] \in DOMAIN DigitValue

Digits(s) == SubSeq(s, 3, Len(s))

(* the low 32 bits of the number the digits denote, most significant     *)
(* digit first, in two 16-bit halves                                    *)
Low32(digits) ==
  LET d(k) == IF k <= Len(digits) THEN DigitValue[digits[Len(digits) + 1 - k]] ELSE 0
  IN [hi |-> d(5) + 16 * d(6) + 256 * d(7) + 4096 * d(8),
      lo |-> d(1) + 16 * d(2) + 256 * d(3) + 4096 * d(4)]

(* C13: a run whose response carries result.number = "0x" and hex digits *)
(* (any number of them, odd or even) returns the low 32 bits of the      *)
(* number they denote, and so does a run whose response carries the      *)
(* same digits without the prefix.                                      *)
C13_BlockNumberDecoded ==
  (WorkerEnded /\ (last.result = "Ok" \/ last.value.out # "send")) =>
    \A s \in HexStrings :
      (/\ IsHexNumber(s)
       /\ last.value.response \in {NumberResponse(s), NumberResponse(Digits(s))})
        => (last.result = "Ok" /\ last.value.out = Low32(Digits(s)))

(* C14: the number of entries of canonicalHeaderHashes is at most        *)
(* hashesGCThreshold and the number of heights of allHeaderHashes is at  *)
(* most finalizedGCThreshold, whatever thresholds init accepted.        *)
C14_RetentionBound ==
  /\ is_some(HashesGCThreshold)
       => Cardinality(DOMAIN CanonicalHeaderHashes) <= unwrap(HashesGCThreshold)
  /\ is_some(FinalizedGCThreshold)
       => Cardinality(DOMAIN AllHeaderHashes) <= unwrap(FinalizedGCThreshold)
  /\ (is_none(HashesGCThreshold) \/ is_none(FinalizedGCThreshold))
       => (DOMAIN CanonicalHeaderHashes = {} /\ DOMAIN AllHeaderHashes = {})

(* C15: with B the best height, allHeaderHashes, headers and infos hold  *)
(* no entry for a height below B - finalizedGCThreshold and              *)
(* canonicalHeaderHashes holds none below B - hashesGCThreshold.        *)
C15_GCHorizon ==
  contains_key(Infos, BestHeaderHash) =>
    LET B == last_block_number
    IN /\ is_some(HashesGCThreshold) /\ is_some(FinalizedGCThreshold)
       /\ \A n \in DOMAIN AllHeaderHashes : n >= B - unwrap(FinalizedGCThreshold)
       /\ \A h \in DOMAIN Headers : Headers[h].number >= B - unwrap(FinalizedGCThreshold)
       /\ \A h \in DOMAIN Infos : Infos[h].number >= B - unwrap(FinalizedGCThreshold)
       /\ \A n \in DOMAIN CanonicalHeaderHashes : n >= B - unwrap(HashesGCThreshold)

C15_Witness ==
  /\ is_some(initArgs)
  /\ last_block_number = 7
  /\ HashesGCThreshold = Some(0) /\ FinalizedGCThreshold = Some(1)
  /\ 7 \in DOMAIN CanonicalHeaderHashes /\ 7 \in DOMAIN AllHeaderHashes

(* C16: in an initialised state dag_merkle_root(epoch) returns           *)
(* dagsMerkleRoots[epoch - dagsStartEpoch] when that index is within the *)
(* table, and for every other epoch yields MissingEpochRoot as a value.  *)
C16_EpochRootTotal ==
  (last.op = "dag_merkle_root" /\ initialized /\ is_some(initArgs)) =>
    LET i == last.value.epoch - unwrap(DAGsStartEpoch)
    IN IF 0 <= i /\ i < Len(DAGsMerkleRoots)
         THEN last.result = "Ok" /\ last.value.out = DAGsMerkleRoots[i + 1]
         ELSE last.result = "MissingEpochRoot"

(* C17: dagsStartEpoch, hashesGCThreshold, finalizedGCThreshold and      *)
(* numConfirmations are all unset or all set, and initialized() holds    *)
(* exactly when bestHeaderHash refers to a stored genesis header.       *)
C17_MarkersTogether ==
  /\ is_some(DAGsStartEpoch) = is_some(HashesGCThreshold)
  /\ is_some(DAGsStartEpoch) = is_some(FinalizedGCThreshold)
  /\ is_some(DAGsStartEpoch) = is_some(NumConfirmations)
  /\ initialized = already_initialized
  /\ initialized = (/\ contains_key(Headers, BestHeaderHash)
                    /\ contains_key(Infos, BestHeaderHash)
                    /\ contains_key(CanonicalHeaderHashes, Headers[BestHeaderHash].number)
                    /\ CanonicalHeaderHashes[Headers[BestHeaderHash].number] = BestHeaderHash)

(* C18: a step of an offchain worker run, whether the fetch succeeds or  *)
(* fails, changes no storage item.                                      *)
C18_WorkerReadOnly ==
  [][(last' # last /\ last'.op = "offchain_worker") => UNCHANGED storage]_vars

C18_Witness ==
  /\ WorkerEnded
  /\ last.result = "Ok"
  /\ is_some(initArgs)
  /\ DOMAIN Headers # {}

C20_LastBlockNumber ==
  /\ last_block_number =
       (IF is_some(initArgs)
          THEN unwrap(rlp_decode(unwrap(initArgs).first_header)).number
          ELSE 0)
  /\ last.op = "last_block_number"
       => (last.result = "Ok" /\ last.value = last_block_number)

C20_Witness ==
  /\ last.op = "last_block_number"
  /\ last.value = 7
  /\ is_some(initArgs)

====
